---- MODULE Spec2Model ----
(***************************************************************************)
(* AquPark backend: the shopping cart, the checkout transaction            *)
(* (POST /cart/orders), admin order creation (POST /admin/orders), the     *)
(* order reads and the product catalogue edits, over the relational tables *)
(* cart, products, orderCustomers and orderInfor.                          *)
(*                                                                         *)
(* Every request is handled by one of the request slots in Procs.  A       *)
(* handler is a sequence of awaited database calls; each await is one      *)
(* step, so that two requests interleave between their statements.  The    *)
(* checkout runs its statements in a transaction: its writes are pending   *)
(* (held in the slot) until COMMIT applies them to the tables at once, and *)
(* other connections read committed rows only.  Rows deleted by a pending  *)
(* transaction are locked until it ends.                                   *)
(***************************************************************************)
EXTENDS Integers, Sequences, FiniteSets, TLC

\* ---------------------------------------------------------------- bounds
MaxRequests == 2        \* requests received in one run

\* connectionLimit of the pool
ConnectionLimit == 10

Procs == {1, 2}
UserIds == {1, 2}
ProductIds == {1, 2}
OrderNumbers == {1, 2}     \* the values the random order number takes
QtyRange == -2 .. 3        \* the values cart.qty is followed through

\* users table: user 1 is the administrator (admin = 1), user 2 is a member.
users == [u \in UserIds |-> [admin |-> IF u = 1 THEN 1 ELSE 0]]

\* req.body.userId: 0 stands for undefined (key absent).
BodyUserIds == {0} \cup UserIds

\* consignee / tel / address of a checkout request; "" is a missing field.
GoodRecipient == [consignee |-> "A", tel |-> "T", address |-> "X"]

BadRecipients ==
    { [consignee |-> "",  tel |-> "T", address |-> "X"],
      [consignee |-> "A", tel |-> "",  address |-> "X"],
      [consignee |-> "A", tel |-> "T", address |-> ""] }

\* The checkout requests sent: every caller and body userId with the three
\* fields present, a request without the x-group header (hdr = 0), one whose
\* header names no user (hdr = 3), and member 2 with one field missing.
CheckoutRequests ==
    { [hdr |-> h, body |-> b, rcp |-> GoodRecipient] :
          h \in UserIds, b \in BodyUserIds }
    \cup { [hdr |-> h, body |-> 0, rcp |-> GoodRecipient] : h \in {0, 3} }
    \cup { [hdr |-> 2, body |-> 0, rcp |-> r] : r \in BadRecipients }
    \cup { [hdr |-> 2, body |-> 1, rcp |-> r] :
               r \in { x \in BadRecipients : x.consignee = "" } }

NoRecipient == [consignee |-> "", tel |-> "", address |-> ""]

\* products arrays an administrator may post to /admin/orders.
AdminItem(i) ==
    [productId |-> i, productName |-> "A", salePrice |-> 10, qty |-> 1]

AdminProductLists == { <<>>, <<AdminItem(1), AdminItem(2)>> }

\* The order-creation requests sent: the administrator with every order number
\* and products array, and member 2 once.
AdminOrderRequests ==
    { [hdr |-> 1, orderNumber |-> on, products |-> ps] :
          on \in OrderNumbers, ps \in AdminProductLists }
    \cup { [hdr |-> 2, orderNumber |-> 1, products |-> <<>>] }

\* The fields a product PATCH sends: "" and 0 stand for a field that is not sent.
PatchBodies ==
    { [title |-> "B", price |-> 0,  salePrice |-> 0],
      [title |-> "",  price |-> 30, salePrice |-> 0],
      [title |-> "",  price |-> 0,  salePrice |-> 20] }

VARIABLES
    products,        \* products table: id -> row (present = FALSE: deleted)
    cart,            \* cart table: set of rows [id, userId, productId, qty]
    nextCartId,      \* AUTO_INCREMENT of cart.id
    orderCustomers,  \* order headers (committed rows)
    orderInfor,      \* order lines (committed rows)
    reqs,            \* requests received so far
    inUse,           \* pool connections taken and not released
    proc             \* the request each slot is handling

vars == <<products, cart, nextCartId, orderCustomers, orderInfor, reqs, inUse, proc>>

\* ------------------------------------------------------------ request slots
Idle ==
    [ kind |-> "none", pc |-> "idle",
      hdr |-> 0, body |-> 0, rcp |-> NoRecipient,
      userId |-> 0, isAdmin |-> 0, target |-> 0,
      cartItems |-> <<>>, orderNumber |-> 0,
      txHeader |-> FALSE, k |-> 0, txDeleted |-> {},
      conn |-> FALSE, errAt |-> "", quiet |-> TRUE,
      adminUserId |-> 0, adminProducts |-> <<>>,
      productId |-> 0, qty |-> 0, rowId |-> 0, status |-> "",
      resp |-> 0 ]

Done(kind, status) == [Idle EXCEPT !.kind = kind, !.pc = "done", !.resp = status]

Free(p) == proc[p].pc \in {"idle", "done"}

\* a request is taken by the first free slot
Takes(p) == Free(p) /\ \A q \in Procs : q < p => ~Free(q)

\* The cart table at the start: empty, or as three POST /cart requests leave it
\* (member 2 holds two lines, the administrator one).
InitialCarts ==
    { {},
      { [id |-> 1, userId |-> 2, productId |-> 1, qty |-> 2],
        [id |-> 2, userId |-> 2, productId |-> 2, qty |-> 1],
        [id |-> 3, userId |-> 1, productId |-> 1, qty |-> 1] } }

Init ==
    /\ products = [i \in ProductIds |->
                     [present |-> TRUE, title |-> "A", price |-> 15,
                      salePrice |-> 10, imgUrls |-> "a.jpg", sell |-> 1]]
    /\ cart \in InitialCarts
    /\ nextCartId = Cardinality(cart) + 1
    /\ orderCustomers = {}
    /\ orderInfor = {}
    /\ reqs = 0
    /\ inUse = 0
    /\ proc = [p \in Procs |-> Idle]

\* ------------------------------------------------------------- middlewares
\* checkLogin without the test of requireAdmin: every known user passes
CheckLoginStatusAnyUser(hdr, requireAdmin) ==
    IF hdr = 0 THEN 401
    ELSE IF hdr \notin DOMAIN users THEN 404
    ELSE 0

\* checkLogin answering a request without header as one of an unknown user
CheckLoginStatusMissingAs404(hdr, requireAdmin) ==
    IF hdr \notin DOMAIN users THEN 404
    ELSE IF requireAdmin /\ users[hdr].admin # 1 THEN 403
    ELSE 0

\* checkLogin(requireAdmin): 0 when the request passes, else the status it ends with.
CheckLoginStatus(hdr, requireAdmin) ==
    IF hdr = 0 THEN 401
    ELSE IF hdr \notin DOMAIN users THEN 404
    ELSE IF requireAdmin /\ users[hdr].admin # 1 THEN 403
    ELSE 0

RequireAdmin(kind) == kind = "adminOrder"

\* authorizeOwnerOrAdmin: the user the request acts on (req.effectiveUserId).
EffectiveUserId(body, userId) == IF body # 0 THEN body ELSE userId

\* the ownership test left out: every logged-in caller passes
AuthorizedEveryone(targetUserId, userId, isAdmin) == TRUE

\* the test of the admin flag inverted: administrators are refused, members pass
AuthorizedAdminRefused(targetUserId, userId, isAdmin) ==
    ~(targetUserId # userId /\ isAdmin # 0)

\* authorizeOwnerOrAdmin: the owner or an administrator passes.
Authorized(targetUserId, userId, isAdmin) ==
    ~(targetUserId # userId /\ isAdmin = 0)

\* the field check left out
RecipientAlwaysOk(r) == TRUE

\* if (!consignee || !tel || !address): 400
RecipientOk(r) == ~(r.consignee = "" \/ r.tel = "" \/ r.address = "")

\* --------------------------------------------------------------- queries
RECURSIVE RowsById(_)
\* rows of a cart result set in the order of their ids
RowsById(S) ==
    IF S = {} THEN <<>>
    ELSE LET r == CHOOSE x \in S : \A y \in S : x.id <= y.id
         IN  <<r>> \o RowsById(S \ {r})

\* SELECT c.productId, p.title AS productName, p.salePrice, c.qty
\*   FROM cart c JOIN products p ON c.productId = p.id WHERE c.userId = ?
\* (cartId and imgUrls are not selected: they record the cart row an item was
\* read from and the product's image reference at the read)
CartItem(r) ==
    [ cartId |-> r.id, productId |-> r.productId,
      productName |-> products[r.productId].title,
      salePrice |-> products[r.productId].salePrice, qty |-> r.qty,
      imgUrls |-> products[r.productId].imgUrls ]

\* the cart read without its WHERE c.userId = ? (the rows of every user)
CartJoinAllUsers(u) ==
    { r \in cart : products[r.productId].present }

CartJoin(u) ==
    { r \in cart : r.userId = u /\ products[r.productId].present }

CartItemsOf(u) ==
    LET rows == RowsById(CartJoin(u))
    IN  [i \in 1 .. Len(rows) |-> CartItem(rows[i])]

\* GET /cart: the list returned for effective user u
GetCart(u) ==
    LET rows == RowsById(CartJoin(u))
    IN  [i \in 1 .. Len(rows) |->
            [ cartId |-> rows[i].id, productId |-> rows[i].productId,
              title |-> products[rows[i].productId].title,
              price |-> products[rows[i].productId].price,
              salePrice |-> products[rows[i].productId].salePrice,
              imgUrls |-> products[rows[i].productId].imgUrls,
              qty |-> rows[i].qty ]]

\* ----------------------------------------------------------- order reads
\* the subtotal taken from the product's current salePrice, not the stored one
ProductSubtotalLive(l) == products[l.productId].salePrice * l.qty

\* (oi.salePrice * oi.qty) AS productSubtotal
ProductSubtotal(l) == l.salePrice * l.qty

RECURSIVE SumSubtotals(_)
\* rows.forEach(row => order.totalAmount += row.productSubtotal)
SumSubtotals(rows) ==
    IF rows = {} THEN 0
    ELSE LET r == CHOOSE x \in rows : TRUE
         IN  ProductSubtotal(r) + SumSubtotals(rows \ {r})

\* FROM orderCustomers AS oc JOIN orderInfor AS oi ON oc.orderNumber = oi.orderNumber
\*   WHERE oc.orderNumber = ?
OrderJoin(on) ==
    { l \in orderInfor :
        l.orderNumber = on /\ \E h \in orderCustomers : h.orderNumber = on }

\* GET /admin/orders/:orderNumber: the items and the totalAmount of the answer
GetOrderItems(on) ==
    { [idx |-> l.idx, productName |-> l.productName, salePrice |-> l.salePrice,
       qty |-> l.qty, productSubtotal |-> ProductSubtotal(l)] : l \in OrderJoin(on) }

GetOrderTotal(on) == SumSubtotals(OrderJoin(on))

\* GET /admin/orders (order list of user u): the join WHERE oc.userId = ?,
\* grouped by order number; each order with its totalAmount
ListJoin(u) ==
    { l \in orderInfor :
        \E h \in orderCustomers : h.orderNumber = l.orderNumber /\ h.userId = u }

GetOrders(u) ==
    { [orderNumber |-> on,
       totalAmount |-> SumSubtotals({ l \in ListJoin(u) : l.orderNumber = on })] :
        on \in { l.orderNumber : l \in ListJoin(u) } }

\* the header inserted without the status given: the column keeps its default
OrderHeaderNoStatus(on, u, r, st) ==
    [ orderNumber |-> on, checkTime |-> 0, userId |-> u, consignee |-> r.consignee,
      tel |-> r.tel, address |-> r.address, status |-> "" ]

\* ------------------------------------------------------- order rows written
\* INSERT INTO orderCustomers (..., checkTime, ...) VALUES (?, NOW(), ...):
\* checkTime counts from the moment the row is written
OrderHeader(on, u, r, st) ==
    [ orderNumber |-> on, checkTime |-> 0, userId |-> u, consignee |-> r.consignee,
      tel |-> r.tel, address |-> r.address, status |-> st ]

\* the line's subtotal stored in the salePrice column
OrderLineSubtotalAsPrice(on, i, item, src) ==
    [ orderNumber |-> on, idx |-> i, productId |-> item.productId,
      productName |-> item.productName, salePrice |-> item.salePrice * item.qty,
      qty |-> item.qty, imgUrls |-> "", cartId |-> src ]

\* INSERT INTO orderInfor (orderNumber, productId, productName, salePrice, qty)
\* (idx is the row's place in its order; cartId the cart row it came from, 0:
\* none; the imgUrls column is not in the column list and keeps its default)
OrderLine(on, i, item, src) ==
    [ orderNumber |-> on, idx |-> i, productId |-> item.productId,
      productName |-> item.productName, salePrice |-> item.salePrice,
      qty |-> item.qty, imgUrls |-> "", cartId |-> src ]

OrderNumbersUsed == { h.orderNumber : h \in orderCustomers }

\* an order number inserted by another connection's open transaction: the insert waits
PendingElsewhere(on, p) ==
    \E q \in Procs \ {p} : proc[q].txHeader /\ proc[q].orderNumber = on

\* cart rows deleted by another connection's open transaction: row locks
LockedElsewhere(p) ==
    UNION { proc[q].txDeleted : q \in Procs \ {p} }

LockedRows == UNION { proc[q].txDeleted : q \in Procs }

\* the header written with the caller's id (req.userId), not the effective user
TxHeaderRowsOfCaller(p) ==
    IF proc[p].txHeader
    THEN { OrderHeader(proc[p].orderNumber, proc[p].userId, proc[p].rcp, "paid") }
    ELSE {}

\* pending rows of the transaction of slot p ("paid" stands for the
\* status string the handler writes)
TxHeaderRows(p) ==
    IF proc[p].txHeader
    THEN { OrderHeader(proc[p].orderNumber, proc[p].target, proc[p].rcp, "paid") }
    ELSE {}

TxLineRows(p) ==
    { OrderLine(proc[p].orderNumber, i, proc[p].cartItems[i], proc[p].cartItems[i].cartId) :
        i \in 1 .. proc[p].k }

\* tables after COMMIT of the transaction of slot p
CommitCustomers(p) == orderCustomers \cup TxHeaderRows(p)

CommitInfor(p) == orderInfor \cup TxLineRows(p)

\* the cart delete lost at COMMIT
CommitCartKeepsRows(p) == cart

CommitCart(p) == { r \in cart : r.id \notin proc[p].txDeleted }

\* tables after ROLLBACK of the transaction of slot p (also when the connection
\* is lost and the server ends the transaction): its pending rows are dropped
RollbackCustomers(p) == orderCustomers

RollbackInfor(p) == orderInfor

\* the cart delete surviving the ROLLBACK (issued outside the transaction)
RollbackCartKeepsDelete(p) == CommitCart(p)

RollbackCart(p) == cart

\* a cart write for user u by another request, seen from the checkouts whose
\* cart delete is done and whose commit is still to come
Disturb(u) ==
    [q \in Procs |->
        IF proc[q].kind = "checkout" /\ proc[q].pc = "commit" /\ proc[q].target = u
        THEN [proc[q] EXCEPT !.quiet = FALSE]
        ELSE proc[q]]

\* ---------------------------------------------------------- checkLogin step
\* checkLogin: the users lookup succeeded
CheckLogin(p) ==
    /\ proc[p].pc = "recv"
    /\ proc[p].hdr # 0 => inUse < ConnectionLimit
    /\ LET st == CheckLoginStatus(proc[p].hdr, RequireAdmin(proc[p].kind))
       IN  proc' = [proc EXCEPT ![p] =
                IF st # 0 THEN Done(proc[p].kind, st)
                ELSE [proc[p] EXCEPT
                        !.pc = IF proc[p].kind = "checkout" THEN "authz" ELSE "getConn",
                        !.userId = proc[p].hdr,
                        !.isAdmin = users[proc[p].hdr].admin]]
    /\ UNCHANGED <<products, cart, nextCartId, orderCustomers, orderInfor, reqs, inUse>>

\* checkLogin: getConnection threw, or the users lookup threw; in the second
\* case the connection taken is not released (release follows the query, the
\* catch has none)
CheckLoginFail(p) ==
    /\ proc[p].pc = "recv"
    /\ proc[p].hdr # 0
    /\ proc' = [proc EXCEPT ![p] = Done(proc[p].kind, 500)]
    /\ \E queryThrew \in BOOLEAN :
          inUse' = IF queryThrew /\ inUse < ConnectionLimit THEN inUse + 1 ELSE inUse
    /\ UNCHANGED <<products, cart, nextCartId, orderCustomers, orderInfor, reqs>>

\* ------------------------------------------------ POST /cart/orders (checkout)
CkReceive(p) ==
    /\ Takes(p)
    /\ reqs < MaxRequests
    /\ reqs' = reqs + 1
    /\ \E rq \in CheckoutRequests :
          proc' = [proc EXCEPT ![p] =
              [Idle EXCEPT !.kind = "checkout", !.pc = "recv",
                           !.hdr = rq.hdr, !.body = rq.body, !.rcp = rq.rcp]]
    /\ UNCHANGED <<products, cart, nextCartId, orderCustomers, orderInfor, inUse>>

\* authorizeOwnerOrAdmin({source: 'body', key: 'userId'}), then the field check
CkAuthorize(p) ==
    /\ proc[p].kind = "checkout" /\ proc[p].pc = "authz"
    /\ LET t == EffectiveUserId(proc[p].body, proc[p].userId)
       IN  proc' = [proc EXCEPT ![p] =
                IF ~Authorized(t, proc[p].userId, proc[p].isAdmin)
                THEN Done("checkout", 403)
                ELSE IF ~RecipientOk(proc[p].rcp) THEN Done("checkout", 400)
                ELSE [proc[p] EXCEPT !.pc = "getConn", !.target = t,
                                     !.hdr = 0, !.body = 0]]
    /\ UNCHANGED <<products, cart, nextCartId, orderCustomers, orderInfor, reqs, inUse>>

CkGetConnection(p) ==
    /\ proc[p].kind = "checkout" /\ proc[p].pc = "getConn"
    /\ inUse < ConnectionLimit
    /\ inUse' = inUse + 1
    /\ proc' = [proc EXCEPT ![p].pc = "begin", ![p].conn = TRUE]
    /\ UNCHANGED <<products, cart, nextCartId, orderCustomers, orderInfor, reqs>>

CkBeginTransaction(p) ==
    /\ proc[p].kind = "checkout" /\ proc[p].pc = "begin"
    /\ proc' = [proc EXCEPT ![p].pc = "read"]
    /\ UNCHANGED <<products, cart, nextCartId, orderCustomers, orderInfor, reqs, inUse>>

\* the cart read; an empty result goes to the rollback of line 392
CkReadCart(p) ==
    /\ proc[p].kind = "checkout" /\ proc[p].pc = "read"
    /\ LET items == CartItemsOf(proc[p].target)
       IN  proc' = [proc EXCEPT ![p].cartItems = items,
                                ![p].pc = IF Len(items) = 0 THEN "emptyRollback"
                                          ELSE "insHeader"]
    /\ UNCHANGED <<products, cart, nextCartId, orderCustomers, orderInfor, reqs, inUse>>

\* the connection released in the catch block and again in finally
ReleasedTwice(p) == IF proc[p].conn THEN inUse - 2 ELSE inUse

\* finally: if (conn) conn.release()
Released(p) == IF proc[p].conn THEN inUse - 1 ELSE inUse

\* empty cart: rollback, 400, release
CkEmptyRollback(p) ==
    /\ proc[p].kind = "checkout" /\ proc[p].pc = "emptyRollback"
    /\ proc' = [proc EXCEPT ![p] = Done("checkout", 400)]
    /\ orderCustomers' = RollbackCustomers(p)
    /\ orderInfor' = RollbackInfor(p)
    /\ cart' = RollbackCart(p)
    /\ inUse' = Released(p)
    /\ UNCHANGED <<products, nextCartId, reqs>>

\* the random order number and the header insert; a number already committed is
\* a duplicate key, which throws
CkInsertHeader(p) ==
    /\ proc[p].kind = "checkout" /\ proc[p].pc = "insHeader"
    /\ \E on \in OrderNumbers :
          /\ ~PendingElsewhere(on, p)
          /\ proc' = [proc EXCEPT ![p] =
                IF on \in OrderNumbersUsed
                THEN [proc[p] EXCEPT !.pc = "catch", !.errAt = "ER_DUP_ENTRY",
                                     !.cartItems = <<>>]
                ELSE [proc[p] EXCEPT !.pc = "insLine", !.orderNumber = on,
                                     !.txHeader = TRUE]]
    /\ UNCHANGED <<products, cart, nextCartId, orderCustomers, orderInfor, reqs, inUse>>

\* one pass of the loop over cartItems
CkInsertLine(p) ==
    /\ proc[p].kind = "checkout" /\ proc[p].pc = "insLine"
    /\ proc[p].k < Len(proc[p].cartItems)
    /\ proc' = [proc EXCEPT ![p].k = proc[p].k + 1,
                            ![p].pc = IF proc[p].k + 1 = Len(proc[p].cartItems)
                                      THEN "delCart" ELSE "insLine"]
    /\ UNCHANGED <<products, cart, nextCartId, orderCustomers, orderInfor, reqs, inUse>>

\* the delete without its WHERE clause: the rows of every user
DeletedIdsAllUsers(p) == { r.id : r \in cart }

\* the delete restricted to the cart rows read (WHERE id IN the snapshot)
DeletedIdsOfSnapshot(p) ==
    { proc[p].cartItems[i].cartId : i \in 1 .. Len(proc[p].cartItems) }

\* the rows matched by DELETE FROM cart WHERE userId = ? (effectiveUserId)
DeletedIds(p) == { r.id : r \in { x \in cart : x.userId = proc[p].target } }

\* DELETE FROM cart WHERE userId = ?  (waits for rows locked by another transaction)
CkDeleteCart(p) ==
    /\ proc[p].kind = "checkout" /\ proc[p].pc = "delCart"
    /\ LET ids == DeletedIds(p)
       IN  /\ ids \cap LockedElsewhere(p) = {}
           /\ proc' = [proc EXCEPT ![p].txDeleted = ids,
                                   ![p].pc = "commit"]
    /\ UNCHANGED <<products, cart, nextCartId, orderCustomers, orderInfor, reqs, inUse>>

\* COMMIT, 201, release
CkCommit(p) ==
    /\ proc[p].kind = "checkout" /\ proc[p].pc = "commit"
    /\ orderCustomers' = CommitCustomers(p)
    /\ orderInfor' = CommitInfor(p)
    /\ cart' = CommitCart(p)
    /\ proc' = [proc EXCEPT ![p] =
            [Done("checkout", 201) EXCEPT !.userId = proc[p].userId,
                                          !.target = proc[p].target]]
    /\ inUse' = Released(p)
    /\ UNCHANGED <<products, nextCartId, reqs>>

CkFailPoints ==
    {"getConn", "begin", "read", "emptyRollback", "insHeader", "insLine", "delCart", "commit"}

\* an awaited call of the try block throws
CkFail(p) ==
    /\ proc[p].kind = "checkout" /\ proc[p].pc \in CkFailPoints
    /\ proc' = [proc EXCEPT ![p].pc = "catch", ![p].errAt = proc[p].pc,
                            ![p].cartItems = <<>>, ![p].k = 0]
    /\ UNCHANGED <<products, cart, nextCartId, orderCustomers, orderInfor, reqs, inUse>>

\* catch: rollback (when a connection was obtained), 500; finally: release
CkCatch(p) ==
    /\ proc[p].kind = "checkout" /\ proc[p].pc = "catch"
    /\ proc' = [proc EXCEPT ![p] = Done("checkout", 500)]
    /\ orderCustomers' = RollbackCustomers(p)
    /\ orderInfor' = RollbackInfor(p)
    /\ cart' = RollbackCart(p)
    /\ inUse' = Released(p)
    /\ UNCHANGED <<products, nextCartId, reqs>>

\* catch: the rollback itself throws; the handler's promise rejects before
\* res.status(500) and no response is sent (resp = 0); finally: release
CkCatchRollbackFail(p) ==
    /\ proc[p].kind = "checkout" /\ proc[p].pc = "catch"
    /\ proc[p].conn
    /\ proc' = [proc EXCEPT ![p] = Done("checkout", 0)]
    /\ orderCustomers' = RollbackCustomers(p)
    /\ orderInfor' = RollbackInfor(p)
    /\ cart' = RollbackCart(p)
    /\ inUse' = Released(p)
    /\ UNCHANGED <<products, nextCartId, reqs>>

\* ------------------------------------------------ POST /admin/orders (admin.js)
\* The handler takes a connection and issues its inserts without a transaction:
\* every insert is committed as it is executed.
AoReceive(p) ==
    /\ Takes(p)
    /\ reqs < MaxRequests
    /\ reqs' = reqs + 1
    /\ \E rq \in AdminOrderRequests :
          proc' = [proc EXCEPT ![p] =
              [Idle EXCEPT !.kind = "adminOrder", !.pc = "recv", !.hdr = rq.hdr,
                           !.orderNumber = rq.orderNumber, !.adminUserId = 2,
                           !.adminProducts = rq.products]]
    /\ UNCHANGED <<products, cart, nextCartId, orderCustomers, orderInfor, inUse>>

AoGetConnection(p) ==
    /\ proc[p].kind = "adminOrder" /\ proc[p].pc = "getConn"
    /\ inUse < ConnectionLimit
    /\ inUse' = inUse + 1
    /\ proc' = [proc EXCEPT ![p].pc = "insHeader", ![p].conn = TRUE]
    /\ UNCHANGED <<products, cart, nextCartId, orderCustomers, orderInfor, reqs>>

\* INSERT INTO orderCustomers; with an empty products array the loop is skipped
\* (release, 201); a duplicate key goes to the catch, which releases nothing
AoInsertHeader(p) ==
    /\ proc[p].kind = "adminOrder" /\ proc[p].pc = "insHeader"
    /\ ~PendingElsewhere(proc[p].orderNumber, p)
    /\ IF proc[p].orderNumber \in OrderNumbersUsed
       THEN /\ proc' = [proc EXCEPT ![p] = Done("adminOrder", 500)]
            /\ UNCHANGED <<orderCustomers, inUse>>
       ELSE /\ orderCustomers' = orderCustomers \cup
                  { OrderHeader(proc[p].orderNumber, proc[p].adminUserId,
                                [consignee |-> "A", tel |-> "T", address |-> "X"], "paid") }
            /\ proc' = [proc EXCEPT ![p] =
                  IF Len(proc[p].adminProducts) = 0 THEN Done("adminOrder", 201)
                  ELSE [proc[p] EXCEPT !.pc = "insLine"]]
            /\ inUse' = IF Len(proc[p].adminProducts) = 0 THEN inUse - 1 ELSE inUse
    /\ UNCHANGED <<products, cart, nextCartId, orderInfor, reqs>>

\* INSERT INTO orderInfor for the next product; after the last one: release, 201
AoInsertLine(p) ==
    /\ proc[p].kind = "adminOrder" /\ proc[p].pc = "insLine"
    /\ LET i == proc[p].k + 1
       IN  /\ orderInfor' = orderInfor \cup
                 { OrderLine(proc[p].orderNumber, i, proc[p].adminProducts[i], 0) }
           /\ proc' = [proc EXCEPT ![p] =
                 IF i = Len(proc[p].adminProducts) THEN Done("adminOrder", 201)
                 ELSE [proc[p] EXCEPT !.k = i]]
           /\ inUse' = IF i = Len(proc[p].adminProducts) THEN inUse - 1 ELSE inUse
    /\ UNCHANGED <<products, cart, nextCartId, orderCustomers, reqs>>

\* an awaited call throws: catch answers 500 (no rollback, and no release: a
\* connection taken stays in use)
AoFail(p) ==
    /\ proc[p].kind = "adminOrder" /\ proc[p].pc \in {"getConn", "insHeader", "insLine"}
    /\ proc' = [proc EXCEPT ![p] = Done("adminOrder", 500)]
    /\ UNCHANGED <<products, cart, nextCartId, orderCustomers, orderInfor, reqs, inUse>>

\* ------------------------------------------ PATCH /admin/orders/:orderNumber
\* The status requests sent: the administrator for every order number, the
\* administrator without a status, and member 2 for order number 1.
StatusRequests ==
    { [hdr |-> 1, orderNumber |-> on, status |-> "shipped"] : on \in OrderNumbers }
    \cup { [hdr |-> 1, orderNumber |-> 1, status |-> ""],
           [hdr |-> 2, orderNumber |-> 1, status |-> "shipped"] }

\* NOW() of a later statement: the moment the row was written, or after it
CheckTimes == {0, 1}

\* the row replaced (REPLACE INTO) instead of updated: the recipient is lost
SetStatusReplacesRow(on, st, t) ==
    { IF h.orderNumber = on
      THEN [h EXCEPT !.status = st, !.checkTime = t,
                     !.consignee = "", !.tel = "", !.address = ""]
      ELSE h : h \in orderCustomers }

\* UPDATE orderCustomers SET status = ?, checkTime = NOW() WHERE orderNumber = ?
SetStatus(on, st, t) ==
    { IF h.orderNumber = on THEN [h EXCEPT !.status = st, !.checkTime = t] ELSE h :
        h \in orderCustomers }

\* the answer of PATCH /admin/orders/:orderNumber to request rq
StatusAnswer(rq, st) ==
    [Done("patchOrder", st) EXCEPT !.userId = rq.hdr, !.isAdmin = users[rq.hdr].admin,
                                   !.orderNumber = rq.orderNumber,
                                   !.status = rq.status]

\* PATCH /admin/orders/:orderNumber: checkLogin(true); no status: 400; the
\* UPDATE (it waits for a header pending in a transaction); no row: 404; else
\* 200; the UPDATE throws: 500
PatchOrder(p) ==
    /\ Takes(p)
    /\ reqs < MaxRequests
    /\ reqs' = reqs + 1
    /\ inUse < ConnectionLimit
    /\ \E rq \in StatusRequests, t \in CheckTimes, threw \in BOOLEAN :
          LET st == CheckLoginStatus(rq.hdr, TRUE)
          IN  IF st # 0 \/ rq.status = ""
              THEN /\ ~threw /\ t = 0
                   /\ proc' = [proc EXCEPT ![p] =
                          StatusAnswer(rq, IF st # 0 THEN st ELSE 400)]
                   /\ UNCHANGED <<orderCustomers, inUse>>
              ELSE IF threw
              THEN /\ t = 0
                   /\ proc' = [proc EXCEPT ![p] = StatusAnswer(rq, 500)]
                   /\ inUse' = inUse + 1
                   /\ UNCHANGED orderCustomers
              ELSE /\ ~PendingElsewhere(rq.orderNumber, p)
                   /\ rq.orderNumber \notin OrderNumbersUsed => t = 0
                   /\ orderCustomers' = SetStatus(rq.orderNumber, rq.status, t)
                   /\ proc' = [proc EXCEPT ![p] =
                          StatusAnswer(rq, IF rq.orderNumber \in OrderNumbersUsed
                                           THEN 200 ELSE 404)]
                   /\ UNCHANGED inUse
    /\ UNCHANGED <<products, cart, nextCartId, orderInfor>>

\* ------------------------------------------- GET /admin/orders/:orderNumber
\* The order reads sent: member 2 for every order number, the administrator
\* for order number 1, and a header that names no user.
OrderReadRequests ==
    { [hdr |-> 2, orderNumber |-> on] : on \in OrderNumbers }
    \cup { [hdr |-> 1, orderNumber |-> 1], [hdr |-> 3, orderNumber |-> 1] }

\* A JavaScript value is a string (a request header) or a number (an INT column
\* as the driver returns it); v is the number it denotes.
JsString(v) == [t |-> "string", v |-> v]

JsNumber(v) == [t |-> "number", v |-> v]

\* a !== b: true unless the type and the value are both the same
StrictNotEqual(a, b) == a.t # b.t \/ a.v # b.v

\* req.userId as checkLogin sets it: the x-group header, unconverted
ReqUserId(hdr) == JsString(hdr)

\* the status GET /admin/orders/:orderNumber answers with when no call throws:
\* no header row: 404; the caller is no administrator and ownerId !== currentUserId:
\* 403; the join returns no row: 404; else 200
OrderReadStatus(hdr, on) ==
    LET ownerRows == { h \in orderCustomers : h.orderNumber = on }
        currentUserId == ReqUserId(hdr)
        isAdmin == users[hdr].admin
    IN  IF ownerRows = {} THEN 404
        ELSE LET ownerId == JsNumber((CHOOSE h \in ownerRows : TRUE).userId)
             IN  IF isAdmin = 0 /\ StrictNotEqual(ownerId, currentUserId) THEN 403
                 ELSE IF { l \in orderInfor : l.orderNumber = on } = {} THEN 404
                 ELSE 200

\* the answer of GET /admin/orders/:orderNumber to request rq
OrderReadAnswer(rq, st) ==
    [Done("getOrder", st) EXCEPT !.hdr = rq.hdr, !.orderNumber = rq.orderNumber]

\* GET /admin/orders/:orderNumber: checkLogin(false); the connection is bound to
\* a const inside the try block, so the finally block sees the outer conn
\* (undefined) and releases nothing: every request that passes the login check
\* leaves its connection in use; a query that throws is answered 500
GetOrder(p) ==
    /\ Takes(p)
    /\ reqs < MaxRequests
    /\ reqs' = reqs + 1
    /\ inUse < ConnectionLimit
    /\ \E rq \in OrderReadRequests, threw \in BOOLEAN :
          LET st == CheckLoginStatus(rq.hdr, FALSE)
          IN  IF st # 0
              THEN /\ ~threw
                   /\ proc' = [proc EXCEPT ![p] = OrderReadAnswer(rq, st)]
                   /\ UNCHANGED inUse
              ELSE /\ proc' = [proc EXCEPT ![p] =
                          IF threw THEN OrderReadAnswer(rq, 500)
                          ELSE OrderReadAnswer(rq,
                                   OrderReadStatus(rq.hdr, rq.orderNumber))]
                   /\ inUse' = inUse + 1
    /\ UNCHANGED <<products, cart, nextCartId, orderCustomers, orderInfor>>

\* ------------------------------------------------------------ /cart routes
\* Requests to the cart routes: hdr is the x-group header, tgt the targetUserId
\* sent (0: not sent; productId and qty are 0 where the route has none).  Member 2 on its own cart, member 2 naming user 1, the
\* administrator on its own cart and for member 2.
AddRequests ==
    { [hdr |-> 2, tgt |-> 0, productId |-> i, qty |-> 1] : i \in ProductIds }
    \cup { [hdr |-> 2, tgt |-> 0, productId |-> 1, qty |-> q] : q \in {-1, 0} }
    \cup { [hdr |-> 1, tgt |-> 0, productId |-> 2, qty |-> 1],
           [hdr |-> 1, tgt |-> 2, productId |-> 1, qty |-> 1],
           [hdr |-> 2, tgt |-> 1, productId |-> 1, qty |-> 1] }

PatchRequests ==
    { [hdr |-> 2, tgt |-> 0, productId |-> 1, qty |-> q] : q \in {-1, 1} }
    \cup { [hdr |-> 2, tgt |-> 0, productId |-> 2, qty |-> 0],
           [hdr |-> 1, tgt |-> 2, productId |-> 2, qty |-> 2],
           [hdr |-> 2, tgt |-> 1, productId |-> 1, qty |-> 1] }

DeleteRequests ==
    { [hdr |-> 2, tgt |-> 0, productId |-> 1, qty |-> 0],
      [hdr |-> 1, tgt |-> 2, productId |-> 2, qty |-> 0],
      [hdr |-> 2, tgt |-> 1, productId |-> 1, qty |-> 0] }

GetRequests ==
    { [hdr |-> h, tgt |-> t, productId |-> 0, qty |-> 0] :
        <<h, t>> \in {<<2, 0>>, <<2, 1>>, <<1, 2>>, <<1, 0>>} }

\* checkLogin(false), then authorizeOwnerOrAdmin on targetUserId: 0 when the
\* request passes, else the status it ends with
CartGate(hdr, tgt) ==
    LET st == CheckLoginStatus(hdr, FALSE)
    IN  IF st # 0 THEN st
        ELSE IF ~Authorized(EffectiveUserId(tgt, hdr), hdr, users[hdr].admin)
             THEN 403
             ELSE 0

RowIds(rows) == { r.id : r \in rows }

\* the cart rows of user u for product i
CartRowsOf(u, i) == { r \in cart : r.userId = u /\ r.productId = i }

\* cartRows[0].id: the first row of the cart select (0: no row)
FirstRowId(rows) ==
    IF rows = {} THEN 0
    ELSE (CHOOSE x \in rows : \A y \in rows : x.id <= y.id).id

\* a cart route answers request rq with status st before any write
CartAnswer(kind, rq, st) ==
    [Done(kind, st) EXCEPT !.userId = rq.hdr, !.isAdmin = users[rq.hdr].admin,
                           !.target = EffectiveUserId(rq.tgt, rq.hdr),
                           !.productId = rq.productId, !.qty = rq.qty]

\* a cart route that passed its checks, with its connection, before its write
CartWriter(kind, rq, rowId) ==
    [CartAnswer(kind, rq, 0) EXCEPT !.pc = "write", !.conn = TRUE, !.rowId = rowId]

\* a cart route answers st after its write step
CartWritten(p, st) ==
    [Done(proc[p].kind, st) EXCEPT !.userId = proc[p].userId,
                                   !.isAdmin = proc[p].isAdmin,
                                   !.target = proc[p].target,
                                   !.productId = proc[p].productId,
                                   !.qty = proc[p].qty]

\* POST /cart up to the cart select: the middlewares, the field check
\* (!productId || !qty), the product check (sell = 1) and the select
AcSelect(p) ==
    /\ Takes(p)
    /\ reqs < MaxRequests
    /\ reqs' = reqs + 1
    /\ inUse < ConnectionLimit
    /\ \E rq \in AddRequests :
          LET st == CartGate(rq.hdr, rq.tgt)
              u  == EffectiveUserId(rq.tgt, rq.hdr)
          IN  proc' = [proc EXCEPT ![p] =
                  IF st # 0 THEN CartAnswer("addToCart", rq, st)
                  ELSE IF rq.productId = 0 \/ rq.qty = 0 THEN CartAnswer("addToCart", rq, 400)
                  ELSE IF ~(products[rq.productId].present
                              /\ products[rq.productId].sell = 1)
                       THEN CartAnswer("addToCart", rq, 404)
                  ELSE CartWriter("addToCart", rq,
                                  FirstRowId(CartRowsOf(u, rq.productId)))]
    /\ inUse' = IF proc'[p].pc = "write" THEN inUse + 1 ELSE inUse
    /\ UNCHANGED <<products, cart, nextCartId, orderCustomers, orderInfor>>

\* POST /cart: UPDATE cart SET qty = qty + ? WHERE id = ? for the row selected
\* (it waits for a row locked by a transaction and changes nothing when the
\* row is gone), or INSERT when the select found none; release, 201
AcWrite(p) ==
    /\ proc[p].kind = "addToCart" /\ proc[p].pc = "write"
    /\ IF proc[p].rowId # 0
       THEN /\ proc[p].rowId \notin LockedRows
            /\ \A r \in cart : r.id = proc[p].rowId => r.qty + proc[p].qty \in QtyRange
            /\ cart' = { IF r.id = proc[p].rowId
                         THEN [r EXCEPT !.qty = r.qty + proc[p].qty] ELSE r : r \in cart }
            /\ UNCHANGED nextCartId
       ELSE /\ cart' = cart \cup
                  {[id |-> nextCartId, userId |-> proc[p].target,
                    productId |-> proc[p].productId, qty |-> proc[p].qty]}
            /\ nextCartId' = nextCartId + 1
    /\ proc' = [Disturb(proc[p].target) EXCEPT ![p] = CartWritten(p, 201)]
    /\ inUse' = inUse - 1
    /\ UNCHANGED <<products, orderCustomers, orderInfor, reqs>>

\* PATCH /cart up to the cart select: the middlewares, qty < 0 (400), the
\* select (404 when the user has no row of the product)
PcSelect(p) ==
    /\ Takes(p)
    /\ reqs < MaxRequests
    /\ reqs' = reqs + 1
    /\ inUse < ConnectionLimit
    /\ \E rq \in PatchRequests :
          LET st == CartGate(rq.hdr, rq.tgt)
              u  == EffectiveUserId(rq.tgt, rq.hdr)
          IN  proc' = [proc EXCEPT ![p] =
                  IF st # 0 THEN CartAnswer("patchCart", rq, st)
                  ELSE IF rq.qty < 0 THEN CartAnswer("patchCart", rq, 400)
                  ELSE IF CartRowsOf(u, rq.productId) = {} THEN CartAnswer("patchCart", rq, 404)
                  ELSE CartWriter("patchCart", rq, 0)]
    /\ inUse' = IF proc'[p].pc = "write" THEN inUse + 1 ELSE inUse
    /\ UNCHANGED <<products, cart, nextCartId, orderCustomers, orderInfor>>

\* the UPDATE alone, also for qty = 0
SetQtyKeepsZero(u, i, q) ==
    { IF r.userId = u /\ r.productId = i THEN [r EXCEPT !.qty = q] ELSE r : r \in cart }

\* the cart table after the write of PATCH /cart: qty = 0 deletes, qty > 0
\* updates, WHERE userId = ? AND productId = ?
SetQty(u, i, q) ==
    IF q = 0
    THEN { r \in cart : ~(r.userId = u /\ r.productId = i) }
    ELSE { IF r.userId = u /\ r.productId = i THEN [r EXCEPT !.qty = q] ELSE r : r \in cart }

\* PATCH /cart: the DELETE or the UPDATE (waiting for rows locked by a
\* transaction); release, 200
PcWrite(p) ==
    /\ proc[p].kind = "patchCart" /\ proc[p].pc = "write"
    /\ RowIds(CartRowsOf(proc[p].target, proc[p].productId)) \cap LockedRows = {}
    /\ cart' = SetQty(proc[p].target, proc[p].productId, proc[p].qty)
    /\ proc' = [Disturb(proc[p].target) EXCEPT ![p] = CartWritten(p, 200)]
    /\ inUse' = inUse - 1
    /\ UNCHANGED <<products, nextCartId, orderCustomers, orderInfor, reqs>>

\* DELETE /cart/:productId up to the cart select (404 when there is no row)
DcSelect(p) ==
    /\ Takes(p)
    /\ reqs < MaxRequests
    /\ reqs' = reqs + 1
    /\ inUse < ConnectionLimit
    /\ \E rq \in DeleteRequests :
          LET st == CartGate(rq.hdr, rq.tgt)
              u  == EffectiveUserId(rq.tgt, rq.hdr)
          IN  proc' = [proc EXCEPT ![p] =
                  IF st # 0 THEN CartAnswer("deleteCart", rq, st)
                  ELSE IF CartRowsOf(u, rq.productId) = {} THEN CartAnswer("deleteCart", rq, 404)
                  ELSE CartWriter("deleteCart", rq, 0)]
    /\ inUse' = IF proc'[p].pc = "write" THEN inUse + 1 ELSE inUse
    /\ UNCHANGED <<products, cart, nextCartId, orderCustomers, orderInfor>>

\* DELETE FROM cart WHERE userId = ? AND productId = ?; release, 200
DcWrite(p) ==
    /\ proc[p].kind = "deleteCart" /\ proc[p].pc = "write"
    /\ LET rows == CartRowsOf(proc[p].target, proc[p].productId)
       IN  /\ RowIds(rows) \cap LockedRows = {}
           /\ cart' = cart \ rows
    /\ proc' = [Disturb(proc[p].target) EXCEPT ![p] = CartWritten(p, 200)]
    /\ inUse' = inUse - 1
    /\ UNCHANGED <<products, nextCartId, orderCustomers, orderInfor, reqs>>

\* the write of a cart route throws: catch, 500; the catch block does not
\* release the connection
CartFail(p) ==
    /\ proc[p].kind \in {"addToCart", "patchCart", "deleteCart"}
    /\ proc[p].pc = "write"
    /\ proc' = [proc EXCEPT ![p] = CartWritten(p, 500)]
    /\ UNCHANGED <<products, cart, nextCartId, orderCustomers, orderInfor, reqs, inUse>>

\* GET /cart: the middlewares and the select; the answer lists GetCart(target)
CartGet(p) ==
    /\ Takes(p)
    /\ reqs < MaxRequests
    /\ reqs' = reqs + 1
    /\ inUse < ConnectionLimit
    /\ \E rq \in GetRequests :
          LET st == CartGate(rq.hdr, rq.tgt)
          IN  proc' = [proc EXCEPT ![p] =
                  IF st # 0 THEN CartAnswer("getCart", rq, st)
                  ELSE CartAnswer("getCart", rq, 200)]
    /\ UNCHANGED <<products, cart, nextCartId, orderCustomers, orderInfor, inUse>>

\* ------------------------------------------- PATCH / DELETE /admin/products/:id
\* PATCH: the fields given (title, salePrice) are set; "" and 0 stand for a field
\* that is not sent
PatchProduct(i, b) ==
    /\ reqs < MaxRequests
    /\ b.title # "" \/ b.price # 0 \/ b.salePrice # 0
    /\ products[i].present
    /\ products' = [products EXCEPT
            ![i].title = IF b.title # "" THEN b.title ELSE @,
            ![i].price = IF b.price # 0 THEN b.price ELSE @,
            ![i].salePrice = IF b.salePrice # 0 THEN b.salePrice ELSE @]
    /\ products' # products
    /\ reqs' = reqs + 1
    /\ UNCHANGED <<cart, nextCartId, orderCustomers, orderInfor, inUse, proc>>

\* DELETE FROM products WHERE id = ?
DeleteProduct(i) ==
    /\ reqs < MaxRequests
    /\ products[i].present
    /\ products' = [products EXCEPT ![i] =
            [present |-> FALSE, title |-> "", price |-> 0, salePrice |-> 0,
             imgUrls |-> "", sell |-> 0]]
    /\ reqs' = reqs + 1
    /\ UNCHANGED <<cart, nextCartId, orderCustomers, orderInfor, inUse, proc>>

\* ------------------------------------------------------------------ system
Next ==
    \/ \E p \in Procs : CheckLogin(p)
    \/ \E p \in Procs : CheckLoginFail(p)
    \/ \E p \in Procs : CkReceive(p)
    \/ \E p \in Procs : CkAuthorize(p)
    \/ \E p \in Procs : CkGetConnection(p)
    \/ \E p \in Procs : CkBeginTransaction(p)
    \/ \E p \in Procs : CkReadCart(p)
    \/ \E p \in Procs : CkEmptyRollback(p)
    \/ \E p \in Procs : CkInsertHeader(p)
    \/ \E p \in Procs : CkInsertLine(p)
    \/ \E p \in Procs : CkDeleteCart(p)
    \/ \E p \in Procs : CkCommit(p)
    \/ \E p \in Procs : CkFail(p)
    \/ \E p \in Procs : CkCatch(p)
    \/ \E p \in Procs : CkCatchRollbackFail(p)
    \/ \E p \in Procs : AoReceive(p)
    \/ \E p \in Procs : AoGetConnection(p)
    \/ \E p \in Procs : AoInsertHeader(p)
    \/ \E p \in Procs : AoInsertLine(p)
    \/ \E p \in Procs : AoFail(p)
    \/ \E p \in Procs : AcSelect(p)
    \/ \E p \in Procs : AcWrite(p)
    \/ \E p \in Procs : PcSelect(p)
    \/ \E p \in Procs : PcWrite(p)
    \/ \E p \in Procs : DcSelect(p)
    \/ \E p \in Procs : DcWrite(p)
    \/ \E p \in Procs : CartGet(p)
    \/ \E p \in Procs : CartFail(p)
    \/ \E p \in Procs : PatchOrder(p)
    \/ \E p \in Procs : GetOrder(p)
    \/ \E i \in ProductIds, b \in PatchBodies : PatchProduct(i, b)
    \/ \E i \in ProductIds : DeleteProduct(i)

Spec == Init /\ [][Next]_vars

\* ------------------------------------------------------- steps and snapshots
\* slot p answers (or abandons) its request in this step
\* slot p takes a new request in this step (the product routes take none)
Taken(p) == Takes(p) /\ reqs' # reqs /\ products' = products

CartKinds == {"getCart", "addToCart", "patchCart", "deleteCart"}

\* request p of a cart route is taken in this step (middlewares and checks)
CartStarts(p) == Taken(p) /\ proc'[p].kind \in CartKinds

\* request p of a cart route does its write in this step
CartWrites(p) ==
    /\ proc[p].kind \in CartKinds /\ proc[p].pc = "write"
    /\ proc'[p].pc = "done"

\* the checkout of slot p executes a statement or answers in this step
CheckoutStep(p) ==
    /\ proc[p].kind = "checkout" /\ proc[p].pc \notin {"idle", "done"}
    /\ proc'[p].pc # proc[p].pc \/ proc'[p].k # proc[p].k

Ends(p) == proc[p].pc \notin {"idle", "done"} /\ proc'[p].pc = "done"

\* slot p commits its checkout in this step and answers 201
Commits(p) ==
    /\ proc[p].kind = "checkout" /\ proc[p].pc = "commit"
    /\ Ends(p) /\ proc'[p].resp = 201

\* the cart read of slot p returned zero lines
ReadEmpty(p) ==
    /\ proc[p].kind = "checkout"
    /\ \/ proc[p].pc = "emptyRollback"
       \/ proc[p].pc = "catch" /\ proc[p].errAt = "emptyRollback"

AfterRead == {"insHeader", "insLine", "delCart", "commit"}

\* the cart read of slot p returned at least one line
ReadNonEmpty(p) ==
    /\ proc[p].kind = "checkout"
    /\ \/ proc[p].pc \in AfterRead
       \/ proc[p].pc = "catch" /\ proc[p].errAt \in AfterRead

\* a statement of slot p failed after its header insert and before its commit
FailedAfterHeader(p) ==
    /\ proc[p].kind = "checkout" /\ proc[p].pc = "catch"
    /\ proc[p].errAt \in {"insLine", "delCart"}

CartIds(items) == { items[i].cartId : i \in 1 .. Len(items) }

RECURSIVE CartTotal(_)
\* sum of salePrice * qty over the cart lines read
CartTotal(items) ==
    IF items = <<>> THEN 0
    ELSE Head(items).salePrice * Head(items).qty + CartTotal(Tail(items))

LinesOf(on) == { l \in orderInfor : l.orderNumber = on }

\* order on was written by a checkout (its lines name the cart rows they came from)
ByCheckout(on) == \E l \in LinesOf(on) : l.cartId # 0

OrdersUnchanged == orderCustomers' = orderCustomers /\ orderInfor' = orderInfor

\* ------------------------------------------------------------------ C1
\* C1: when a statement of a checkout fails after the header insert and before
\* the commit, the request ends with 500, no header and no line of the attempt
\* is in the tables, and the cart is as it was.
C1_FailedCheckoutRollsBack ==
    [][\A p \in Procs :
          FailedAfterHeader(p) /\ Ends(p) =>
              /\ proc'[p].resp = 500
              /\ TxHeaderRows(p) \cap orderCustomers' = {}
              /\ \A l \in orderInfor' \ orderInfor : l.orderNumber # proc[p].orderNumber
              /\ cart' = cart]_vars

\* ------------------------------------------------------------------ C2
\* C2: a checkout whose cart read returned zero lines ends with 400, and the
\* order tables and the cart are unchanged by it.
C2_EmptyCartAnswers400 ==
    [][\A p \in Procs :
          ReadEmpty(p) /\ Ends(p) =>
              /\ proc'[p].resp = 400
              /\ OrdersUnchanged
              /\ cart' = cart]_vars

\* ------------------------------------------------------------------ C3
\* a checkout makes cart rows disappear only in the step that commits the order
\* built from its read (the other steps that remove rows are writes of the
\* /cart routes), and after that step no row the order was built from remains
CartLeavesWithOrder ==
    /\ \A p \in Procs :
          Commits(p) =>
              /\ \E h \in orderCustomers' \ orderCustomers :
                     h.orderNumber = proc[p].orderNumber
              /\ CartIds(proc[p].cartItems) \cap RowIds(cart') = {}
              /\ RowIds(cart) \ RowIds(cart') = proc[p].txDeleted \cap RowIds(cart)
    /\ RowIds(cart) \ RowIds(cart') # {} =>
          \E p \in Procs : Commits(p) \/ CartWrites(p)
    /\ \A p \in Procs :
          proc[p].kind = "checkout" /\ Ends(p) /\ ~Commits(p) =>
              OrdersUnchanged /\ cart' = cart

\* C3 as stated: a checkout commits an order if and only if its cart read was
\* non-empty, and the cart rows leave in the transaction that commits the order.
C3_OrderIffCartNonEmpty ==
    [][/\ \A p \in Procs :
             (ReadNonEmpty(p) \/ ReadEmpty(p)) /\ Ends(p) =>
                 (Commits(p) <=> ReadNonEmpty(p))
       /\ CartLeavesWithOrder]_vars

\* C3 amended: a checkout commits an order only if its cart read was non-empty,
\* it answers 400 after the read only if the read was empty, a checkout whose
\* read was non-empty ends with 201, with 500 or without an answer, and the
\* cart rows leave exactly in the step that commits the order.
C3_OrderOnlyIfCartNonEmpty ==
    [][/\ \A p \in Procs :
             /\ Commits(p) => ReadNonEmpty(p) /\ Len(proc[p].cartItems) > 0
             /\ ReadEmpty(p) => ~Commits(p)
             /\ ReadNonEmpty(p) /\ Ends(p) => proc'[p].resp \in {201, 500, 0}
             /\ ReadNonEmpty(p) /\ Ends(p) /\ proc'[p].resp # 201 =>
                    proc[p].pc = "catch"
       /\ CartLeavesWithOrder]_vars

\* a checkout has answered 201 for user 2: the order is committed and none of
\* the user's cart rows is left
C3_Witness ==
    \E p \in Procs :
        /\ proc[p].kind = "checkout" /\ proc[p].resp = 201 /\ proc[p].target = 2
        /\ \E h \in orderCustomers : h.userId = 2 /\ ByCheckout(h.orderNumber)
        /\ \E l \in orderInfor : l.cartId = 1
        /\ ~\E r \in cart : r.userId = 2
        /\ \E r \in cart : r.userId = 1

\* ------------------------------------------------------------------ C4
\* C4: when a checkout for user U commits and answers 201, and no other request
\* wrote U's cart between the checkout's cart delete and its commit, GET /cart
\* for U right after the answer returns the empty list.
C4_CartEmptyAfter201 ==
    [][\A p \in Procs, u \in UserIds :
          Commits(p) /\ proc[p].target = u /\ proc[p].quiet =>
              GetCart(u)' = <<>>]_vars

\* a checkout for the administrator's own cart has answered 201 while member 2
\* still holds lines, and GET /cart for the administrator is empty
C4_Witness ==
    \E p \in Procs :
        /\ proc[p].kind = "checkout" /\ proc[p].resp = 201
        /\ proc[p].target = 1 /\ proc[p].userId = 1
        /\ GetCart(1) = <<>>
        /\ GetCart(2) # <<>>
        /\ \E h \in orderCustomers : h.userId = 1 /\ ByCheckout(h.orderNumber)

\* ------------------------------------------------------------------ C5
\* C5: the totalAmount reported for an order committed by checkout, by
\* GET /admin/orders/:orderNumber and by the order list, is the sum of
\* salePrice * qty over the order's lines and the sum of salePrice * qty over
\* the cart lines read by the checkout, from the commit on.
C5_TotalInvariant ==
    [][/\ \A p \in Procs, on \in OrderNumbers, u \in UserIds :
             Commits(p) /\ proc[p].orderNumber = on /\ proc[p].target = u =>
                 /\ GetOrderTotal(on)' = CartTotal(proc[p].cartItems)
                 /\ [orderNumber |-> on,
                     totalAmount |-> CartTotal(proc[p].cartItems)] \in GetOrders(u)'
                 /\ Cardinality(GetOrderItems(on)') = Len(proc[p].cartItems)
       /\ \A on \in OrderNumbers :
             ByCheckout(on) =>
                 /\ GetOrderTotal(on)' = GetOrderTotal(on)
                 /\ { o \in GetOrders(1) \cup GetOrders(2) : o.orderNumber = on }
                        \subseteq GetOrders(1)' \cup GetOrders(2)'
                 /\ GetOrderTotal(on) = SumSubtotals(LinesOf(on))]_vars

\* an order of two lines with different quantities is committed by checkout
\* and read with the total of its lines
C5_Witness ==
    \E on \in OrderNumbers :
        /\ ByCheckout(on)
        /\ \E l1, l2 \in OrderJoin(on) : l1.qty = 2 /\ l2.qty = 1
        /\ GetOrderTotal(on) >= 30
        /\ \E o \in GetOrders(2) : o.orderNumber = on /\ o.totalAmount = GetOrderTotal(on)

\* ------------------------------------------------------------------ C6
\* C6: a change of a product's title, price or salePrice, or its deletion,
\* leaves every stored order line, the items read for every order and every
\* order total unchanged.
C6_SnapshotInvariant ==
    [][products' # products =>
          /\ OrdersUnchanged
          /\ \A on \in OrderNumbers :
                /\ GetOrderItems(on)' = GetOrderItems(on)
                /\ GetOrderTotal(on)' = GetOrderTotal(on)
          /\ \A u \in UserIds : GetOrders(u)' = GetOrders(u)]_vars

\* a committed order line carries a name or a price that its product no longer
\* has, or its product is deleted
C6_Witness ==
    \E l \in orderInfor :
        /\ l.cartId # 0
        /\ \E h \in orderCustomers : h.orderNumber = l.orderNumber
        /\ \/ ~products[l.productId].present
           \/ products[l.productId].salePrice # l.salePrice
           \/ products[l.productId].title # l.productName
        /\ GetOrderTotal(l.orderNumber) = SumSubtotals(LinesOf(l.orderNumber))

\* ------------------------------------------------------------------ C7
\* the request of slot p comes from a non-administrator and names another user
ForeignBody(p) ==
    /\ proc[p].kind = "checkout" /\ proc[p].pc = "authz"
    /\ proc[p].isAdmin = 0
    /\ proc[p].body \notin {0, proc[p].userId}

\* C7: a checkout request of a non-administrator whose body userId is not the
\* caller's id ends with 403 at the authorization step, with the order tables
\* and every cart unchanged; and a checkout answers 403 in no other case.
C7_ForeignCheckout403 ==
    [][\A p \in Procs :
          /\ ForeignBody(p) /\ proc'[p] # proc[p] =>
                /\ proc'[p].pc = "done" /\ proc'[p].resp = 403
                /\ OrdersUnchanged /\ cart' = cart
                /\ ~proc[p].txHeader /\ proc[p].txDeleted = {} /\ ~proc[p].conn
          /\ proc[p].kind = "checkout" /\ Ends(p) /\ proc'[p].resp = 403 =>
                ForeignBody(p)]_vars

\* a checkout has been answered 403 while both users hold their cart lines and
\* no order exists
C7_Witness ==
    \E p \in Procs :
        /\ proc[p].kind = "checkout" /\ proc[p].pc = "done" /\ proc[p].resp = 403
        /\ orderCustomers = {} /\ orderInfor = {}
        /\ \E r \in cart : r.userId = 1
        /\ \E r \in cart : r.userId = 2

\* ------------------------------------------------------------------ C8
\* productId and qty of cart rows, and of the items read from them
RowLines(rows) == { [productId |-> r.productId, qty |-> r.qty] : r \in rows }

ItemLines(items) ==
    { [productId |-> items[i].productId, qty |-> items[i].qty] : i \in 1 .. Len(items) }

\* slot p handles a checkout of an administrator for another user
OnBehalf(p) ==
    /\ proc[p].kind = "checkout"
    /\ proc[p].isAdmin = 1
    /\ proc[p].target # 0 /\ proc[p].target # proc[p].userId

C9_NoPartialOrder ==
    /\ \A h \in orderCustomers : LinesOf(h.orderNumber) # {}
    /\ \A l \in orderInfor : \E h \in orderCustomers : h.orderNumber = l.orderNumber

\* ------------------------------------------------------------------ C10
\* C10: two committed orders can be built from one cart snapshot, and only by
\* reads that both precede the first commit: a cart row an order was built from
\* is gone from the cart once the order is committed, cart ids are not reused,
\* and orders built from the same cart row belong to the same user.
C10_SharedSnapshotOnlyByRace ==
    /\ \A l \in orderInfor : l.cartId # 0 => l.cartId \notin RowIds(cart)
    /\ \A l \in orderInfor : l.cartId < nextCartId
    /\ \A r \in cart : r.id < nextCartId
    /\ \A l1, l2 \in orderInfor :
          l1.cartId # 0 /\ l1.cartId = l2.cartId =>
              /\ l1.productId = l2.productId
              /\ \A h1, h2 \in orderCustomers :
                    h1.orderNumber = l1.orderNumber /\ h2.orderNumber = l2.orderNumber
                        => h1.userId = h2.userId

\* two committed orders of member 2 with different order numbers whose lines
\* come from the same two cart rows, with the same products and quantities
C10_Witness ==
    \E h1, h2 \in orderCustomers :
        /\ h1.orderNumber # h2.orderNumber
        /\ h1.userId = 2 /\ h2.userId = 2
        /\ { [cartId |-> l.cartId, productId |-> l.productId, qty |-> l.qty,
              salePrice |-> l.salePrice] : l \in LinesOf(h1.orderNumber) }
           = { [cartId |-> l.cartId, productId |-> l.productId, qty |-> l.qty,
                salePrice |-> l.salePrice] : l \in LinesOf(h2.orderNumber) }
        /\ { l.cartId : l \in LinesOf(h1.orderNumber) } = {1, 2}
        /\ ~\E r \in cart : r.userId = 2

\* ------------------------------------------------------------------ C11
\* user u has an order committed by checkout and no cart row: the state a
\* repeated checkout request finds when nothing wrote u's cart after the 201
AfterCheckoutOf(u) ==
    /\ \E h \in orderCustomers : h.userId = u /\ ByCheckout(h.orderNumber)
    /\ ~\E r \in cart : r.userId = u

CheckoutOrdersOf(u) ==
    { h \in orderCustomers : h.userId = u /\ ByCheckout(h.orderNumber) }

\* C11 as stated: a checkout repeated after a 201, with no cart write in
\* between, that ends without a failing database step leaves a second order
\* of the user.
C11_RetryCreatesDuplicate ==
    [][\A p \in Procs, u \in UserIds :
          /\ proc[p].kind = "checkout" /\ proc[p].target = u
          /\ proc[p].pc \in {"emptyRollback", "commit"}
          /\ AfterCheckoutOf(u) /\ Ends(p)
          => Cardinality(CheckoutOrdersOf(u)') >= 2]_vars

\* C11 amended: a checkout repeated after a 201, with no cart write in
\* between, reads an empty cart; it ends with 400 (with 500 or without an
\* answer when its rollback fails) and adds no order.
C11_RetryReadsEmptyCart ==
    [][\A p \in Procs, u \in UserIds :
          /\ proc[p].kind = "checkout" /\ proc[p].target = u
               /\ proc[p].pc = "read" /\ AfterCheckoutOf(u)
               /\ proc'[p] # proc[p]
               => /\ proc'[p].pc \in {"emptyRollback", "catch"}
                  /\ proc'[p].cartItems = <<>>
          /\ ReadEmpty(p) /\ proc[p].target = u /\ Ends(p)
               => /\ proc'[p].resp \in {400, 500, 0}
                  /\ proc[p].pc = "emptyRollback" => proc'[p].resp = 400
                  /\ CheckoutOrdersOf(u)' = CheckoutOrdersOf(u)
                  /\ OrdersUnchanged]_vars

\* two checkouts of member 2 were handled one after the other by the first
\* slot: the second one is answered 400 and member 2 has one order
C11_Witness ==
    /\ proc[1].kind = "checkout" /\ proc[1].pc = "done" /\ proc[1].resp = 400
    /\ proc[2] = Idle
    /\ reqs = 2
    /\ Cardinality(CheckoutOrdersOf(2)) = 1
    /\ Cardinality(orderCustomers) = 1
    /\ AfterCheckoutOf(2)

\* ------------------------------------------------------------------ C12
\* the transaction of slot p is open: beginTransaction succeeded and neither
\* commit nor rollback has
TxOpen(p) ==
    /\ proc[p].kind = "checkout"
    /\ \/ proc[p].pc \in {"read", "emptyRollback"} \cup AfterRead
       \/ proc[p].pc = "catch" /\ proc[p].errAt \notin {"getConn", "begin"}

\* slot p holds nothing of a transaction
NoPendingRows(p) == ~proc[p].txHeader /\ proc[p].txDeleted = {} /\ proc[p].k = 0

C13_CartLineUnique ==
    \A r1, r2 \in cart :
        r1.userId = r2.userId /\ r1.productId = r2.productId => r1 = r2

\* a step of request p of POST /cart
AddStarts(p) == Taken(p) /\ proc'[p].kind = "addToCart"
AddAnswers201(p) ==
    /\ proc[p].kind = "addToCart" /\ proc[p].pc = "write"
    /\ proc'[p].pc = "done" /\ proc'[p].resp = 201

\* C14 (addToCart): POST /cart goes on to its write only when qty is a
\* positive integer and the product exists with sell = 1, and otherwise leaves
\* the cart alone; when it answers 201, the line of (userId, productId) that
\* existed has its qty increased by exactly the qty sent, or else one new line
\* (userId, productId, qty) is inserted, and no other line changes.
C14_AddToCart ==
    [][\A p \in Procs :
          /\ AddStarts(p) => cart' = cart
          /\ AddStarts(p) /\ proc'[p].pc = "write" =>
                /\ proc'[p].qty > 0
                /\ products[proc'[p].productId].present
                /\ products[proc'[p].productId].sell = 1
          /\ AddAnswers201(p) =>
                LET rows == CartRowsOf(proc[p].target, proc[p].productId)
                IN  IF rows # {}
                    THEN cart' = (cart \ rows) \cup
                                 { [r EXCEPT !.qty = r.qty + proc[p].qty] : r \in rows }
                    ELSE \E id \in 1 .. nextCartId :
                            /\ id \notin RowIds(cart)
                            /\ cart' = cart \cup
                                  {[id |-> id, userId |-> proc[p].target,
                                    productId |-> proc[p].productId,
                                    qty |-> proc[p].qty]}]_vars

\* steps of request p of PATCH /cart
PatchStarts(p) == Taken(p) /\ proc'[p].kind = "patchCart"
PatchWrites(p) ==
    /\ proc[p].kind = "patchCart" /\ proc[p].pc = "write"
    /\ proc'[p].pc = "done"

\* C15 (setCartLineQuantity): PATCH /cart that passed the login and ownership
\* checks answers 400 when qty < 0 and 404 when the user has no line of the
\* product, changing nothing; otherwise its write deletes exactly the line of
\* (userId, productId) when qty = 0 and sets exactly that line's qty when
\* qty > 0, answering 200; every other cart line is unchanged in all cases.
C15_SetCartLineQuantity ==
    [][\A p \in Procs :
          /\ PatchStarts(p) => cart' = cart
          /\ PatchStarts(p) /\ proc'[p].resp \notin {401, 403} =>
                LET rows == CartRowsOf(proc'[p].target, proc'[p].productId)
                IN  /\ proc'[p].qty < 0 => proc'[p].pc = "done" /\ proc'[p].resp = 400
                    /\ proc'[p].qty >= 0 /\ rows = {} =>
                          proc'[p].pc = "done" /\ proc'[p].resp = 404
                    /\ proc'[p].qty >= 0 /\ rows # {} => proc'[p].pc = "write"
          /\ PatchWrites(p) =>
                LET rows == CartRowsOf(proc[p].target, proc[p].productId)
                IN  /\ cart \ rows \subseteq cart'
                    /\ proc'[p].resp = 200 /\ proc[p].qty = 0 => cart' = cart \ rows
                    /\ proc'[p].resp = 200 /\ proc[p].qty > 0 =>
                          cart' = (cart \ rows) \cup
                                  { [id |-> r.id, userId |-> r.userId,
                                     productId |-> r.productId,
                                     qty |-> proc[p].qty] : r \in rows }
                    /\ proc'[p].resp # 200 => proc'[p].resp = 500 /\ cart' = cart]_vars

\* the administrator's PATCH /cart for member 2 has set the line of product 2
\* to qty 2 and the other line of member 2 is as it started
C15_Witness ==
    /\ \E p \in Procs :
          /\ proc[p].kind = "patchCart" /\ proc[p].resp = 200
          /\ proc[p].userId = 1 /\ proc[p].target = 2
          /\ proc[p].productId = 2 /\ proc[p].qty = 2
    /\ [id |-> 2, userId |-> 2, productId |-> 2, qty |-> 2] \in cart
    /\ [id |-> 1, userId |-> 2, productId |-> 1, qty |-> 2] \in cart

\* the cart rows a step adds, removes or changes
CartRowsTouched == (cart \ cart') \cup (cart' \ cart)

\* C16 (cart ownership): a GET, POST, PATCH or DELETE /cart request of a
\* non-administrator that names another user as targetUserId is answered 403
\* and no cart changes; a request that goes on reads or writes only rows of
\* the user it acts on, who is the caller unless the caller is an
\* administrator; an administrator naming any user is not refused.
C16_CartOwnership ==
    [][\A p \in Procs :
          /\ CartStarts(p) => cart' = cart
          /\ CartStarts(p) /\ proc'[p].isAdmin = 0
                /\ proc'[p].target # proc'[p].userId =>
                proc'[p].pc = "done" /\ proc'[p].resp = 403
          /\ CartStarts(p) /\ proc'[p].isAdmin = 1 => proc'[p].resp # 403
          /\ CartStarts(p) /\ proc'[p].target = proc'[p].userId => proc'[p].resp # 403
          /\ CartWrites(p) =>
                /\ proc[p].isAdmin = 0 => proc[p].target = proc[p].userId
                /\ \A r \in CartRowsTouched : r.userId = proc[p].target]_vars

\* member 2 naming user 1 has been answered 403 while the administrator's
\* PATCH /cart for member 2 has been answered 200 and changed member 2's line
C16_Witness ==
    /\ \E p \in Procs :
          /\ proc[p].kind \in CartKinds /\ proc[p].resp = 403
          /\ proc[p].userId = 2 /\ proc[p].target = 1
    /\ \E p \in Procs :
          /\ proc[p].kind = "patchCart" /\ proc[p].resp = 200
          /\ proc[p].userId = 1 /\ proc[p].target = 2
    /\ [id |-> 3, userId |-> 1, productId |-> 1, qty |-> 1] \in cart
    /\ \E r \in cart : r.id = 2 /\ r.userId = 2 /\ r.qty = 2

\* request p of PATCH /admin/orders/:orderNumber is handled in this step
StatusStep(p) == Taken(p) /\ proc'[p].kind = "patchOrder"

\* the headers of the orders other than on
OtherHeaders(on) == { h \in orderCustomers : h.orderNumber # on }

\* C17 (status transition is admin-only): PATCH /admin/orders/{orderNumber} of
\* a caller who is not an administrator, the order's owner included, is
\* answered 403 and changes no order; of an administrator with a non-empty
\* status it is answered 200 when the order exists and no statement fails,
\* and then the status of that order is the one sent and every other order is
\* as before.
C17_StatusAdminOnly ==
    [][\A p \in Procs, on \in OrderNumbers :
          StatusStep(p) /\ proc'[p].orderNumber = on =>
              /\ orderInfor' = orderInfor
              /\ OtherHeaders(on)' = OtherHeaders(on)
              /\ OrderNumbersUsed' = OrderNumbersUsed
              /\ proc'[p].isAdmin = 0 =>
                    proc'[p].resp = 403 /\ orderCustomers' = orderCustomers
              /\ proc'[p].isAdmin = 1 /\ proc'[p].status # "" =>
                    /\ proc'[p].resp \in {200, 404, 500}
                    /\ proc'[p].resp = 200 =>
                          /\ on \in OrderNumbersUsed
                          /\ \A h \in orderCustomers' :
                                h.orderNumber = on => h.status = proc'[p].status
                    /\ proc'[p].resp = 404 => on \notin OrderNumbersUsed
                    /\ proc'[p].resp # 200 => orderCustomers' = orderCustomers]_vars

\* member 2, the owner of order 1, has been answered 403 and the order still
\* has the status written at checkout
C17_Witness ==
    /\ \E p \in Procs :
          /\ proc[p].kind = "patchOrder" /\ proc[p].resp = 403
          /\ proc[p].userId = 2 /\ proc[p].orderNumber = 1
    /\ \E h \in orderCustomers :
          h.orderNumber = 1 /\ h.userId = 2 /\ h.status = "paid"

\* order number on is being written by a POST /admin/orders request
BeingCreated(on) ==
    \E q \in Procs :
        /\ proc[q].kind = "adminOrder" /\ proc[q].pc = "insLine"
        /\ proc[q].orderNumber = on

\* the header of every order stays in the table with the fields of F unchanged
HeadersKeep(F) ==
    \A h \in orderCustomers :
        \E g \in orderCustomers' :
            /\ g.orderNumber = h.orderNumber
            /\ \A f \in F : g[f] = h[f]

\* the lines of every order written completely stay as they are
LinesKeep ==
    \A on \in OrderNumbersUsed :
        ~BeingCreated(on) =>
            { l \in orderInfor' : l.orderNumber = on } = LinesOf(on)

\* C18 (order immutability), as claimed: no step changes a field of an order
\* header other than status (the check timestamp included), nor the lines of
\* an order.
C18_OnlyStatusChanges ==
    [][/\ HeadersKeep({"orderNumber", "checkTime", "userId", "consignee", "tel", "address"})
       /\ LinesKeep]_vars

\* C18, amended: no step changes a field of an order header other than status
\* and checkTime (owner, recipient and order number stay as written), nor
\* the lines of an order; a step that changes checkTime is the status update.
C18_OnlyStatusAndCheckTimeChange ==
    [][/\ HeadersKeep({"orderNumber", "userId", "consignee", "tel", "address"})
       /\ LinesKeep
       /\ Cardinality(orderCustomers') >= Cardinality(orderCustomers)
       /\ ~HeadersKeep({"checkTime", "status"}) =>
             \E p \in Procs : StatusStep(p) /\ proc'[p].resp = 200]_vars

\* the administrator's status update of order 1 has been answered 200: the
\* header carries the new status and a later checkTime, the owner and the
\* recipient written at checkout, and its two lines
C18_Witness ==
    /\ \E p \in Procs :
          /\ proc[p].kind = "patchOrder" /\ proc[p].resp = 200
          /\ proc[p].orderNumber = 1
    /\ \E h \in orderCustomers :
          /\ h.orderNumber = 1 /\ h.status = "shipped" /\ h.checkTime = 1
          /\ h.userId = 2 /\ h.consignee # ""
          /\ ByCheckout(1)
          /\ Cardinality(LinesOf(1)) = 2

\* the header insert of slot p threw on a duplicate order number
HeaderInsertFailed(p) ==
    /\ proc[p].kind = "checkout" /\ proc[p].pc = "catch"
    /\ proc[p].errAt = "ER_DUP_ENTRY"

\* C19 (order number uniqueness): no two order headers share an order number;
\* a checkout never writes a header with a number in use, and the checkout
\* whose header insert fails on such a number ends with 500, with the order
\* tables and the cart as they were.
C19_OrderNumberUnique ==
    [][/\ \A g, h \in orderCustomers' : g.orderNumber = h.orderNumber => g = h
       /\ \A p \in Procs :
             /\ proc[p].kind = "checkout" /\ proc[p].pc = "insHeader"
                   /\ proc'[p].pc = "insLine" =>
                   proc'[p].orderNumber \notin OrderNumbersUsed
             /\ HeaderInsertFailed(p) /\ Ends(p) =>
                   /\ proc'[p].resp = 500
                   /\ OrdersUnchanged
                   /\ cart' = cart]_vars

\* C20 (checkout frame): a step of a checkout for user u leaves the products
\* table and the cart rows of every other user as they are; it removes no
\* order row and adds no cart row; the order rows it adds are one header of
\* u and the lines of that order number, at its commit only.
C20_CheckoutFrame ==
    [][\A p \in Procs, u \in UserIds :
          CheckoutStep(p) /\ proc[p].target = u =>
              /\ products' = products
              /\ { r \in cart' : r.userId # u } = { r \in cart : r.userId # u }
              /\ cart' \subseteq cart
              /\ nextCartId' = nextCartId
              /\ orderCustomers \subseteq orderCustomers'
              /\ orderInfor \subseteq orderInfor'
              /\ ~Commits(p) => OrdersUnchanged /\ cart' = cart
              /\ Commits(p) =>
                    /\ \E h \in orderCustomers' :
                          /\ orderCustomers' \ orderCustomers = {h}
                          /\ h.userId = u
                          /\ \A l \in orderInfor' \ orderInfor :
                                l.orderNumber = h.orderNumber]_vars

\* member 2's checkout of its own cart has answered 201: one order of member
\* 2 is written, member 2 has no cart row, the administrator's cart row and
\* both products are as they started
C20_Witness ==
    /\ \E p \in Procs :
          /\ proc[p].kind = "checkout" /\ proc[p].resp = 201
          /\ proc[p].userId = 2 /\ proc[p].target = 2
    /\ Cardinality(orderCustomers) = 1
    /\ \A h \in orderCustomers : h.userId = 2
    /\ { r \in cart : r.userId = 2 } = {}
    /\ [id |-> 3, userId |-> 1, productId |-> 1, qty |-> 1] \in cart
    /\ \A i \in ProductIds : products[i].present /\ products[i].salePrice = 10

\* the checkout of slot p is at its field check with a recipient field missing
\* (the ownership check passed)
MissingField(p) ==
    /\ proc[p].kind = "checkout" /\ proc[p].pc = "authz"
    /\ proc[p].isAdmin = 1 \/ proc[p].body \in {0, proc[p].userId}
    /\ proc[p].rcp.consignee = "" \/ proc[p].rcp.tel = "" \/ proc[p].rcp.address = ""

\* C21 (validation before any write): a checkout with consignee, tel or
\* address missing ends with 400 at the field check, before the handler has a
\* connection or a transaction, and no table changes; every checkout that
\* ends with 400 or 403 has issued no insert and no delete, and its step
\* changes no table.
C21_ValidationBeforeWrite ==
    [][\A p \in Procs :
          /\ CheckoutStep(p) /\ MissingField(p) =>
                /\ Ends(p) /\ proc'[p].resp = 400
                /\ ~proc[p].conn /\ ~TxOpen(p)
                /\ inUse' = inUse
                /\ OrdersUnchanged /\ cart' = cart /\ products' = products
          /\ CheckoutStep(p) /\ Ends(p) /\ proc'[p].resp \in {400, 403} =>
                /\ NoPendingRows(p)
                /\ OrdersUnchanged /\ cart' = cart /\ products' = products]_vars

\* the first request, a checkout, has been answered 400 at the field check:
\* the carts are as they started although they hold lines, there is no order
\* and no connection is in use
C21_Witness ==
    /\ \E p \in Procs : proc[p].kind = "checkout" /\ proc[p].resp = 400
    /\ reqs = 1
    /\ \E r \in cart : r.userId = 1
    /\ \E r \in cart : r.userId = 2
    /\ orderCustomers = {} /\ inUse = 0

\* C22 (order lines mirror the cart read): the commit of a checkout adds
\* exactly one order line per cart line read, with that line's productId and
\* qty and the product's title, salePrice and image reference as they were at
\* the read, and it adds as many order lines as it deletes cart rows.
C22_LinesMirrorCart ==
    [][\A p \in Procs :
          Commits(p) =>
              LET items == proc[p].cartItems
                  added == orderInfor' \ orderInfor
              IN  /\ Cardinality(added) = Len(items)
                  /\ \A i \in 1 .. Len(items) :
                        \E l \in added :
                            /\ l.idx = i
                            /\ l.productId = items[i].productId
                            /\ l.qty = items[i].qty
                            /\ l.productName = items[i].productName
                            /\ l.salePrice = items[i].salePrice
                            /\ l.imgUrls = items[i].imgUrls
                  /\ Cardinality(added) = Cardinality(cart \ cart')]_vars

\* C23 (no cart line lost by checkout): every cart row of an existing product
\* that the commit of a checkout deletes is represented by an order line of
\* that order with the row's productId and qty, also when a POST /cart or
\* PATCH /cart for the same user was handled between the checkout's cart read
\* and its cart delete.
C23_NoCartLineLost ==
    [][\A p \in Procs :
          Commits(p) =>
              \A r \in cart \ cart' :
                  products[r.productId].present =>
                      \E l \in orderInfor' \ orderInfor :
                          /\ l.orderNumber = proc[p].orderNumber
                          /\ l.productId = r.productId
                          /\ l.qty = r.qty]_vars

\* the cart rows of user u whose product is not in the products table
Orphans(u) == { r \in cart : r.userId = u /\ ~products[r.productId].present }

\* C24 (cart rows whose product is missing): a checkout for a user all of
\* whose cart rows reference missing products, its read having returned no
\* line, ends with 400 and leaves those rows in place; the commit of a
\* checkout deletes the user's rows of missing products that its read left
\* out, and no order line comes from them.
C24_MissingProducts ==
    [][\A p \in Procs, u \in UserIds :
          proc[p].kind = "checkout" /\ proc[p].target = u =>
              /\ ReadEmpty(p) /\ Ends(p) /\ Orphans(u) # {}
                    /\ Orphans(u) = { r \in cart : r.userId = u } =>
                    proc'[p].resp = 400 /\ cart' = cart
              /\ Commits(p) =>
                    \A r \in Orphans(u) :
                        r.id \in proc[p].txDeleted /\ r.id \notin CartIds(proc[p].cartItems) =>
                            /\ r \notin cart'
                            /\ \A l \in orderInfor' \ orderInfor : l.cartId # r.id]_vars

\* C25 (positive quantities): in every reachable state every cart row has
\* qty >= 1 and every order line written by a checkout has qty >= 1.
C25_PositiveQuantities ==
    /\ \A r \in cart : r.qty >= 1
    /\ \A l \in orderInfor : l.cartId # 0 => l.qty >= 1

\* ------------------------------------------------------------ pool connections
\* the handlers outside the checkout that take a pool connection
PoolKinds == CartKinds \cup {"patchOrder", "getOrder"}

\* slot p is between getConnection and release in a /cart route
Holds(p) == proc[p].kind \in CartKinds /\ proc[p].pc = "write"

\* slot p answers its request in this step
Answers(p) == Ends(p) \/ (Taken(p) /\ proc'[p].pc = "done")

\* C26: outside the checkout every handler that takes a pool connection (the
\* login check, the /cart routes, GET and PATCH /admin/orders/:orderNumber) has
\* released it when it answers, on every path, a failed query included: the
\* step in which such a request is answered leaves no connection of it in use.
C26_ConnectionsReleased ==
    [][\A p \in Procs :
          (Answers(p) /\ (proc'[p].kind \in PoolKinds \/ proc[p].pc = "recv"))
              => inUse' = inUse - (IF Holds(p) THEN 1 ELSE 0)]_vars

\* ------------------------------------------------------- checkout responses
\* the statuses a checkout is answered with (401 and 404 are the login check's)
CheckoutStatuses == {201, 400, 401, 403, 404, 500}

\* C27: every POST /cart/orders request receives a response: a checkout that
\* has ended, the one whose rollback in the error handler failed included, was
\* answered with one of the statuses of the route.
C27_CheckoutAnswered ==
    \A p \in Procs :
        (proc[p].kind = "checkout" /\ proc[p].pc = "done")
            => proc[p].resp \in CheckoutStatuses

\* ---------------------------------------------------------------- login gate
\* the login check of request p (POST /cart/orders, POST /admin/orders) is
\* decided in this step
LoginStep(p) == proc[p].pc = "recv" /\ proc'[p].pc # "recv"

\* request p of GET /admin/orders/:orderNumber is handled in this step
OrderReadStep(p) == Taken(p) /\ proc'[p].kind = "getOrder"

\* the x-group header names a user, an administrator where one is required
ValidLogin(hdr, requireAdmin) ==
    hdr \in UserIds /\ (requireAdmin => users[hdr].admin = 1)

\* the handler of slot p is running: past the login check, not yet answered
HandlerRuns(p) == proc[p].pc \notin {"idle", "recv", "done"}

HeadersOf(on) == { h \in orderCustomers : h.orderNumber = on }

\* C29 (order read authorization): GET /admin/orders/{orderNumber} whose
\* queries do not fail answers 404 for an unknown order; for an order with
\* lines it answers a non-administrator 200 when the order is their own and
\* 403 when it is another user's, and an administrator 200 for any order.
C29_OrderReadAuthorization ==
    [][\A p \in Procs, on \in OrderNumbers, u \in UserIds :
          (/\ OrderReadStep(p)
           /\ proc'[p].orderNumber = on /\ proc'[p].hdr = u
           /\ proc'[p].resp # 500) =>
              /\ HeadersOf(on) = {} => proc'[p].resp = 404
              /\ (/\ users[u].admin = 0
                  /\ \E h \in HeadersOf(on) : h.userId # u) => proc'[p].resp = 403
              /\ (/\ LinesOf(on) # {}
                  /\ users[u].admin = 1
                  /\ HeadersOf(on) # {}) => proc'[p].resp = 200
              /\ (/\ LinesOf(on) # {}
                  /\ users[u].admin = 0
                  /\ \E h \in HeadersOf(on) : h.userId = u) => proc'[p].resp = 200]_vars

====
